---------------------------- MODULE Spec2Model ----------------------------
(***************************************************************************)
(* Model of the sleepRemover utility (utils/sleepRemover):                 *)
(*   main.py                 the two-step run                              *)
(*   core/languages.py       get_language_codes, get_language_files,       *)
(*                           process_sleep_messages                        *)
(*   utils/downloader.py     download_file, download_all_files             *)
(*                                                                         *)
(* Text is modelled as a sequence of one-character strings, so that the    *)
(* substring operations of the code (in, replace, re.sub, split, count,    *)
(* endswith, strip) are computed character by character.                   *)
(***************************************************************************)
EXTENDS Integers, Sequences, FiniteSets

(***************************************************************************)
(* Bounds of the model.                                                    *)
(***************************************************************************)
\* longest message enumerated exhaustively for the placeholder rewrite
MaxMsg == 5
\* most descriptors in one remote listing / one download wave
MaxFiles == 2
\* most rows of the scraped language table
MaxRows == 2

(***************************************************************************)
(* Text helpers (Python str semantics).                                    *)
(***************************************************************************)
SetMin(S) == CHOOSE x \in S : \A y \in S : x <= y

\* str.find: the least 1-based index >= from at which sub occurs in s, 0 if none
Find(s, sub, from) ==
    LET cands == { k \in from..(Len(s) - Len(sub) + 1) :
                      SubSeq(s, k, k + Len(sub) - 1) = sub }
    IN  IF cands = {} THEN 0 ELSE SetMin(cands)

\* `sub in s`
Contains(s, sub) == Find(s, sub, 1) > 0

\* str.replace(old, new): leftmost occurrences, left to right, not overlapping
RECURSIVE ReplaceFrom(_, _, _, _)
ReplaceFrom(s, old, new, from) ==
    LET k == Find(s, old, from)
    IN  IF k = 0
        THEN SubSeq(s, from, Len(s))
        ELSE SubSeq(s, from, k - 1) \o new \o ReplaceFrom(s, old, new, k + Len(old))

Replace(s, old, new) == ReplaceFrom(s, old, new, 1)

\* the characters \d matches, among those the model uses
Digits == {"1", "2"}

\* the length of the match of the pattern %\d+\$s starting at index k, 0 if none
IndexedMatchLen(s, k) ==
    IF k > Len(s) \/ s[k] # "%"
    THEN 0
    ELSE LET run == { d \in 1..(Len(s) - k) :
                        \A j \in 1..d : s[k + j] \in Digits }
             d   == IF run = {} THEN 0 ELSE Cardinality(run)
         IN  IF d >= 1 /\ k + d + 2 <= Len(s)
                /\ s[k + d + 1] = "$" /\ s[k + d + 2] = "s"
             THEN d + 3
             ELSE 0

\* re.sub(r'%\d+\$s', new, s): leftmost matches, left to right
RECURSIVE ReSubIndexedFrom(_, _, _)
ReSubIndexedFrom(s, new, from) ==
    LET starts == { k \in from..Len(s) : IndexedMatchLen(s, k) > 0 }
    IN  IF starts = {}
        THEN SubSeq(s, from, Len(s))
        ELSE LET k == SetMin(starts)
             IN  SubSeq(s, from, k - 1) \o new
                   \o ReSubIndexedFrom(s, new, k + IndexedMatchLen(s, k))

ReSubIndexed(s, new) == ReSubIndexedFrom(s, new, 1)

\* str.count(c) for a one-character c
Count(s, c) == Cardinality({ i \in 1..Len(s) : s[i] = c })

\* str.split(sep): the parts of s between the occurrences of sep, left to right
RECURSIVE SplitFrom(_, _, _)
SplitFrom(s, sep, from) ==
    LET k == Find(s, sep, from)
    IN  IF k = 0
        THEN << SubSeq(s, from, Len(s)) >>
        ELSE << SubSeq(s, from, k - 1) >> \o SplitFrom(s, sep, k + Len(sep))

Split(s, sep) == SplitFrom(s, sep, 1)

\* str.endswith(suffix)
EndsWith(s, suffix) ==
    Len(suffix) <= Len(s) /\ SubSeq(s, Len(s) - Len(suffix) + 1, Len(s)) = suffix

\* the letters the model's texts use (str.isalpha is false of every other character)
Letters == {"a", "b", "e", "g", "n", "o", "l", "y", "J", "E", "R"}

\* str.isalpha(): not empty, and every character a letter
IsAlpha(s) == Len(s) > 0 /\ \A i \in 1..Len(s) : s[i] \in Letters

\* str.isdigit(): not empty, and every character a digit
IsDigit(s) == Len(s) > 0 /\ \A i \in 1..Len(s) : s[i] \in Digits

\* get_text(strip=True) of a cell holding one text node: the text without its
\* leading and trailing blanks
Strip(s) ==
    LET keep == { i \in 1..Len(s) : s[i] # " " }
    IN  IF keep = {} THEN <<>>
        ELSE SubSeq(s, SetMin(keep), CHOOSE x \in keep : \A y \in keep : y <= x)

(***************************************************************************)
(* The placeholder rewrite of process_sleep_messages.                      *)
(***************************************************************************)
PairPattern == <<"%", "s", "/", "%", "s">>
BarePattern == <<"%", "s">>
NumPattern  == <<"%", "d">>
PairSentinel == <<"?", "?", "?">>
SentinelDropped == <<>>
Sentinel == <<"?", "?">>

\* languages.py 149-150
PassPair(m) == IF Contains(m, PairPattern) THEN Replace(m, PairPattern, PairSentinel) ELSE m
\* languages.py 154
PassIndexed(m) == ReSubIndexed(m, Sentinel)
\* languages.py 157
PassBare(m) == Replace(m, BarePattern, Sentinel)
\* languages.py 160
PassNum(m) == Replace(m, NumPattern, Sentinel)

RewriteBareFirst(m) == PassNum(PassIndexed(PassPair(PassBare(m))))
RewriteNoNumPass(m) == PassBare(PassIndexed(PassPair(m)))
Rewrite(m) == PassNum(PassBare(PassIndexed(PassPair(m))))

\* languages.py 183: the post-pass heuristic
OrderedHeuristic(m) ==
    \E i \in 1..Len(m) : \E j \in 1..Len(m) : i < j /\ m[i] = "%" /\ m[j] \in {"s", "d"}
LooksUnmodified(m) ==
    Contains(m, <<"%">>) /\ (Contains(m, <<"s">>) \/ Contains(m, <<"d">>))


(***************************************************************************)
(* Source messages: every text over MsgAlphabet up to MaxMsg characters,   *)
(* the hardcoded default of languages.py 128 and two longer messages.      *)
(***************************************************************************)
MsgAlphabet == {"%", "s", "d", "/", "$", "1"}
BoundedMsgs == UNION { [1..n -> MsgAlphabet] : n \in 0..MaxMsg }
DefaultMsg ==
    <<"%", "s", "/", "%", "s", " ", "p", "l", "a", "y", "e", "r", "s", " ",
      "s", "l", "e", "e", "p", "i", "n", "g">>
DefaultMsgOut ==
    <<"?", "?", "?", " ", "p", "l", "a", "y", "e", "r", "s", " ",
      "s", "l", "e", "e", "p", "i", "n", "g">>
IndexedMsg ==
    <<"%", "1", "$", "s", "/", "%", "2", "$", "s", " ", "p", "l", "a", "y", "e", "r", "s", " ",
      "a", "r", "e", " ", "s", "l", "e", "e", "p", "i", "n", "g">>
IndexedMsgOut ==
    <<"?", "?", "/", "?", "?", " ", "p", "l", "a", "y", "e", "r", "s", " ",
      "a", "r", "e", " ", "s", "l", "e", "e", "p", "i", "n", "g">>
TripleMsg == <<"%", "s", "/", "%", "s", "/", "%", "s">>
SourceMsgs == BoundedMsgs \cup {DefaultMsg, IndexedMsg, TripleMsg}


(***************************************************************************)
(* State.                                                                  *)
(***************************************************************************)
VARIABLES
    pc,                 \* main.py / process_sleep_messages: position of the run
    skip_download,      \* main.py 9-11: the --skip-download flag
    abort,              \* why the run aborted ("" while it has not)
    json_files,         \* languages.py 83: the descriptors handed to download_all_files
    dl,                 \* download_all_files: idle, called, gathering, returned, raised
    tasks,              \* downloader.py 40: one download_file task per descriptor
    requests,           \* number of GET requests issued (downloader.py 15)
    pbar,               \* downloader.py 24/29: the progress counter
    successful,         \* downloader.py 43-44: the returned count
    cache,              \* .cache/languages: path -> file state
    rows_read,          \* languages.py 32: number of rows of the table read so far
    accepted,           \* the codes of the rows read so far that yielded one, in row order
    language_codes,     \* languages.py 29: the list get_language_codes builds
    fallback_sleep_msg, \* languages.py 128
    idx,                \* languages.py 132: position of the loop in language_codes
    output,             \* the output directory: path -> message written
    writes,             \* every write of an output file, in order
    unmodified_files,   \* languages.py 175: what the post-pass lists
    r_pc,               \* position in the handling of one message
    sleep_msg,          \* languages.py 140/143: the resolved source message
    processed_msg,      \* languages.py 146-160: the rewritten message, as written
    r_prev,             \* the message before the rewrite was applied once more
    r_flagged           \* languages.py 183-184: the post-pass listed the message

mainvars == <<pc, skip_download, abort>>
dlvars   == <<json_files, dl, tasks, requests, pbar, successful>>
procvars == <<rows_read, accepted, language_codes, fallback_sleep_msg, idx, output, writes, unmodified_files>>
rvars    == <<r_pc, sleep_msg, processed_msg, r_prev, r_flagged>>
vars     == <<mainvars, dlvars, cache, procvars, rvars>>

(***************************************************************************)
(* Files, paths and documents.                                             *)
(***************************************************************************)
JsonExt == <<".", "j", "s", "o", "n">>
EnGb == <<"e", "n", "_", "g", "b">>
EnGbJson == <<"e", "n", "_", "g", "b", ".", "j", "s", "o", "n">>
AaJson == <<"a", "a", ".", "j", "s", "o", "n">>
AbJson == <<"a", "b", ".", "j", "s", "o", "n">>
ReadmeMd == <<"R", "E", "A", "D", "M", "E", ".", "m", "d">>

\* languages.py 75/119: Path(".cache/languages"); main.py 26 / languages.py 115
CacheDir == <<".cache", "/", "languages">>
OutputDir == <<"out", "/", "lang">>

\* pathlib's dir / name for a plain file name
PathJoinSuffixOnly(dir, name) == dir \o <<"/">> \o SubSeq(name, Len(name) - 4, Len(name))
PathJoin(dir, name) == dir \o <<"/">> \o name

\* f"{lang_code}.json"
FileNameOf(code) == code \o JsonExt

\* languages.py 120: the fallback document's file name
FallbackNameWrong == AaJson
FallbackName == EnGbJson

\* a translation document: whether it holds the key sleep.players_sleeping, and its value
NoDoc == [has_key |-> FALSE, msg |-> <<>>]
SampleDocs ==
    { NoDoc, [has_key |-> TRUE, msg |-> <<"%", "1", "$", "s", "/", "%", "d">>] }

\* a cache file: absent, opened for writing and not (or not fully) written, or a document
Absent == [st |-> "absent", has_key |-> FALSE, msg |-> <<>>]
Partial == [st |-> "partial", has_key |-> FALSE, msg |-> <<>>]
Stored(d) == [st |-> "ok", has_key |-> d.has_key, msg |-> d.msg]

CacheNames == {EnGbJson, AaJson, AbJson, ReadmeMd}
CachePaths == { PathJoin(CacheDir, n) : n \in CacheNames }
CacheAt(path) == IF path \in DOMAIN cache THEN cache[path] ELSE Absent

\* the cache a run can find: the fallback document and a language file, each
\* absent, left truncated by an earlier run, or holding a document
OldDoc == [has_key |-> TRUE, msg |-> <<"s", " ", "%">>]
InitialCaches ==
    { c \in [CachePaths -> {Absent, Partial, Stored(OldDoc)}] :
        \A n \in CacheNames \ {EnGbJson, AaJson} : c[PathJoin(CacheDir, n)] = Absent }

(***************************************************************************)
(* Descriptors.                                                            *)
(***************************************************************************)
Descriptor(n) == [has_name |-> TRUE, name |-> n, has_url |-> TRUE]
\* an entry without 'name', and entries without 'download_url'
Nameless == [has_name |-> FALSE, name |-> <<>>, has_url |-> TRUE]
Urlless(n) == [has_name |-> TRUE, name |-> n, has_url |-> FALSE]

SeqsUpTo(S, n) == UNION { [1..k -> S] : k \in 0..n }

\* languages.py 79-81: what the contents endpoint lists: entries of one directory
\* in the order of their names (no name occurs twice), MaxFiles of them at most
RemoteEntries ==
    << Nameless, Descriptor(ReadmeMd), Descriptor(AaJson), Descriptor(AbJson),
       Descriptor(EnGbJson) >>
Pick(S) ==
    LET nth(k) == CHOOSE x \in S : Cardinality({ y \in S : y < x }) = k - 1
    IN  [k \in 1..Cardinality(S) |-> RemoteEntries[nth(k)]]
RemoteListings ==
    { Pick(S) : S \in { T \in SUBSET (1..Len(RemoteEntries)) : Cardinality(T) <= MaxFiles } }

\* downloader.py 33: any list of descriptors a caller may pass
AnyEntries ==
    { Descriptor(EnGbJson), Descriptor(AaJson), Nameless, Urlless(AaJson) }
AnyLists == SeqsUpTo(AnyEntries, MaxFiles)

\* languages.py 83
FilterJson(files) ==
    SelectSeq(files, LAMBDA f : EndsWith(f.name, JsonExt) /\ f.name # ReadmeMd)

(***************************************************************************)
(* download_file and download_all_files (utils/downloader.py).             *)
(***************************************************************************)
\* downloader.py 35: TCPConnector(limit=20, limit_per_host=10)
ConnLimit == 20
ConnLimitPerHost == 10

NewTask == [pc |-> "created", wrote |-> FALSE, path |-> <<>>, data |-> NoDoc]
Terminal == {"ok", "failed", "raised"}

\* the value gather collects for a task
ResultOf(task) ==
    CASE task.pc = "ok" -> "True"
      [] task.pc = "failed" -> "False"
      [] task.pc = "raised" -> "exception"
      [] OTHER -> "pending"

\* connections held: a task holds its connection from the request to the end of
\* the `async with session.get` block
InFlight == Cardinality({ i \in DOMAIN tasks : tasks[i].pc \in {"requested", "opened"} })

\* downloader.py 38-41: the tasks are created and handed to gather
DispatchAll ==
    /\ dl = "called"
    /\ dl' = "gathering"
    /\ tasks' = [i \in 1..Len(json_files) |-> NewTask]
    /\ UNCHANGED <<mainvars, json_files, requests, pbar, successful, cache, procvars, rvars>>

\* downloader.py 11-15: read the two keys (outside the try) and issue the request
TaskStart(i) ==
    /\ dl = "gathering"
    /\ i \in DOMAIN tasks
    /\ tasks[i].pc = "created"
    /\ IF ~json_files[i].has_name \/ ~json_files[i].has_url
       THEN /\ tasks' = [tasks EXCEPT ![i].pc = "raised"]
            /\ UNCHANGED requests
       ELSE /\ InFlight < ConnLimit
            /\ InFlight < ConnLimitPerHost
            /\ tasks' = [tasks EXCEPT ![i].pc = "requested"]
            /\ requests' = requests + 1
    /\ UNCHANGED <<mainvars, json_files, dl, pbar, successful, cache, procvars, rvars>>

Outcomes == {"http_error", "timeout", "bad_json", "open_error", "ok"}

\* downloader.py 15-21 and 27-30: the response arrives (or the request fails or
\* times out), the body is parsed and the destination file is opened for writing
TaskResponse(i) ==
    /\ dl \in {"gathering", "returned", "raised"}
    /\ i \in DOMAIN tasks
    /\ tasks[i].pc = "requested"
    /\ \E outcome \in Outcomes : \E d \in SampleDocs :
         IF outcome = "ok"
         THEN LET file_path == PathJoin(CacheDir, json_files[i].name)
              IN  /\ tasks' = [tasks EXCEPT ![i] =
                                 [pc |-> "opened", wrote |-> FALSE, path |-> file_path, data |-> d]]
                  /\ cache' = [cache EXCEPT ![file_path] = Partial]
                  /\ UNCHANGED pbar
         ELSE /\ tasks' = [tasks EXCEPT ![i].pc = "failed"]
              /\ pbar' = pbar + 1
              /\ UNCHANGED cache
    /\ UNCHANGED <<mainvars, json_files, dl, requests, successful, procvars, rvars>>

\* downloader.py 22-25 and 27-30: the document is written and the file closed, or
\* the write fails and leaves the file as it is
TaskWrite(i) ==
    /\ dl \in {"gathering", "returned", "raised"}
    /\ i \in DOMAIN tasks
    /\ tasks[i].pc = "opened"
    /\ \E written \in BOOLEAN :
         IF written
         THEN /\ tasks' = [tasks EXCEPT ![i].pc = "ok", ![i].wrote = TRUE]
              /\ cache' = [cache EXCEPT ![tasks[i].path] = Stored(tasks[i].data)]
         ELSE /\ tasks' = [tasks EXCEPT ![i].pc = "failed"]
              /\ UNCHANGED cache
    /\ pbar' = pbar + 1
    /\ UNCHANGED <<mainvars, json_files, dl, requests, successful, procvars, rvars>>

\* downloader.py 41: return_exceptions=True
ReturnExceptionsOff == FALSE
ReturnExceptions == TRUE

\* downloader.py 41: gather resumes its caller when every task has finished
TasksAnySettled(ts) == ts = <<>> \/ \E i \in DOMAIN ts : ts[i].pc \in Terminal
TasksSettled(ts) == \A i \in DOMAIN ts : ts[i].pc \in Terminal

\* without return_exceptions, gather raises a task's exception as soon as it occurs
GatherReady ==
    \/ TasksSettled(tasks)
    \/ (~ReturnExceptions /\ \E i \in DOMAIN tasks : tasks[i].pc = "raised")

\* downloader.py 43: sum(1 for result in results if result is True)
CountSuccessful(ts) == Cardinality({ i \in DOMAIN ts : ResultOf(ts[i]) = "True" })

\* downloader.py 41-44
GatherReturn ==
    /\ dl = "gathering"
    /\ GatherReady
    /\ IF ~ReturnExceptions /\ \E i \in DOMAIN tasks : tasks[i].pc = "raised"
       THEN dl' = "raised" /\ UNCHANGED successful
       ELSE dl' = "returned" /\ successful' = CountSuccessful(tasks)
    /\ UNCHANGED <<mainvars, json_files, tasks, requests, pbar, cache, procvars, rvars>>


(***************************************************************************)
(* get_language_codes (core/languages.py 10-64).                           *)
(***************************************************************************)
\* languages.py 45: the dash that stands for "no code"
Dash == <<"endash">>
\* languages.py 46: the marker, a zero-width non-joiner followed by [JEonly]
Marker == <<"zwnj", "[", "J", "E", "o", "n", "l", "y", "]">>

\* languages.py 49/53/57: language_codes.append
AppendCodeOnce(codes, code) ==
    IF \E i \in 1..Len(codes) : codes[i] = code THEN codes ELSE Append(codes, code)
AppendCode(codes, code) == Append(codes, code)

\* languages.py 33-57: the code one row of the table yields, as a list of one
\* code, or the empty list when the row is skipped. A row is its number of cells,
\* the text of its first cell and the text of its fifth cell.
AcceptedCode(row) ==
    IF row.ncells < 6 THEN <<>>
    ELSE IF ~IsDigit(Strip(row.first)) THEN <<>>
    ELSE LET language_code == Strip(row.code)
         IN  IF language_code = <<>> \/ language_code = Dash THEN <<>>
             ELSE IF Contains(language_code, Marker)
             THEN LET je_code == Split(language_code, Marker)[1]
                  IN  IF /\ je_code # <<>>
                         /\ Count(je_code, "_") = 1
                         /\ Len(Split(je_code, <<"_">>)) = 2
                      THEN <<je_code>>
                      ELSE <<>>
             ELSE IF /\ Count(language_code, "_") = 0
                     /\ IsAlpha(language_code)
                     /\ Len(language_code) >= 2
             THEN <<language_code>>
             ELSE IF /\ Count(language_code, "_") = 1
                     /\ Len(Split(language_code, <<"_">>)) = 2
                     /\ \A k \in 1..Len(Split(language_code, <<"_">>)) :
                           LET part == Split(language_code, <<"_">>)[k]
                           IN  IsAlpha(part) /\ Len(part) >= 2
             THEN <<language_code>>
             ELSE <<>>

\* languages.py 32-57: the loop body: the row's code, if any, is appended
ExtractRow(codes, row) ==
    IF AcceptedCode(row) = <<>> THEN codes ELSE AppendCode(codes, AcceptedCode(row)[1])

\* the cell texts the table's rows are drawn from
SampleCells ==
    { EnGb,
      <<"a", "a">>,
      <<" ", "a", "a", " ">>,
      <<"a">>,
      <<"a", "1">>,
      <<"a", "_", "b", "b">>,
      <<"e", "n", "_", "g", "b", "_", "a", "a">>,
      Dash,
      <<>>,
      EnGb \o Marker,
      <<"a", "a">> \o Marker,
      <<"a", "_", "1">> \o Marker }

Row(n, f, c) == [ncells |-> n, first |-> f, code |-> c]
SampleRows ==
    { Row(6, <<"1">>, c) : c \in SampleCells }
      \cup { Row(5, <<"1">>, EnGb), Row(6, <<"R", "a", "n", "g">>, EnGb), Row(7, <<" ", "1", "2">>, EnGb) }

(***************************************************************************)
(* main (main.py) and get_language_files (core/languages.py 66-97).        *)
(***************************************************************************)
\* main.py 18, 22-25: the download step is skipped
MainSkip ==
    /\ pc = "main"
    /\ skip_download
    /\ pc' = "scrape"
    /\ UNCHANGED <<skip_download, abort, dlvars, cache, procvars, rvars>>

\* main.py 18-20, languages.py 74-88: the listing is fetched and filtered, and
\* download_all_files is called; a failed request, or an entry without 'name',
\* aborts the run (languages.py 94-97)
GetListing ==
    /\ pc = "main"
    /\ ~skip_download
    /\ \E fetched \in BOOLEAN : \E files \in RemoteListings :
         IF ~fetched \/ (\E i \in 1..Len(files) : ~files[i].has_name)
         THEN /\ pc' = "aborted"
              /\ abort' = "listing"
              /\ UNCHANGED <<json_files, dl>>
         ELSE /\ pc' = "get_files"
              /\ json_files' = FilterJson(files)
              /\ dl' = "called"
              /\ UNCHANGED abort
    /\ UNCHANGED <<skip_download, tasks, requests, pbar, successful, cache, procvars, rvars>>

\* languages.py 88-92, main.py 20-25: asyncio.run returns the count (or the
\* exception download_all_files raised, which aborts the run: languages.py 96-97)
FilesReturn ==
    /\ pc = "get_files"
    /\ dl \in {"returned", "raised"}
    /\ IF dl = "raised"
       THEN pc' = "aborted" /\ abort' = "download"
       ELSE pc' = "scrape" /\ UNCHANGED abort
    /\ UNCHANGED <<skip_download, dlvars, cache, procvars, rvars>>

(***************************************************************************)
(* process_sleep_messages (core/languages.py 100-191).                     *)
(***************************************************************************)
\* languages.py 112, 32-57: get_language_codes reads the next row of the table
ScrapeRow ==
    /\ pc = "scrape"
    /\ rows_read < MaxRows
    /\ \E row \in SampleRows :
         /\ rows_read' = rows_read + 1
         /\ accepted' = accepted \o AcceptedCode(row)
         /\ language_codes' = ExtractRow(language_codes, row)
    /\ UNCHANGED <<mainvars, dlvars, cache, fallback_sleep_msg, idx, output, writes,
                   unmodified_files, rvars>>

\* languages.py 20-27, 61-64: the page cannot be fetched, or holds no language table
ScrapeFail ==
    /\ pc = "scrape"
    /\ rows_read = 0
    /\ pc' = "aborted"
    /\ abort' = "scrape"
    /\ UNCHANGED <<skip_download, dlvars, cache, procvars, rvars>>

\* languages.py 59, 112-116: the list is returned and the output directory made
ScrapeDone ==
    /\ pc = "scrape"
    /\ pc' = "fallback"
    /\ UNCHANGED <<skip_download, abort, dlvars, cache, procvars, rvars>>

\* languages.py 119-130: the fallback document is required, and is loaded
LoadFallback ==
    /\ pc = "fallback"
    /\ LET fallback_file == PathJoin(CacheDir, FallbackName)
           fallback_data == CacheAt(fallback_file)
       IN  IF fallback_data.st = "absent"
           THEN /\ pc' = "aborted"
                /\ abort' = "no_fallback"
                /\ UNCHANGED <<fallback_sleep_msg, idx>>
           ELSE IF fallback_data.st = "partial"
           THEN /\ pc' = "aborted"
                /\ abort' = "bad_json"
                /\ UNCHANGED <<fallback_sleep_msg, idx>>
           ELSE /\ pc' = "loop"
                /\ fallback_sleep_msg' =
                     IF fallback_data.has_key THEN fallback_data.msg ELSE DefaultMsg
                /\ idx' = 1
                /\ UNCHANGED abort
    /\ UNCHANGED <<skip_download, dlvars, cache, rows_read, accepted, language_codes, output, writes,
                   unmodified_files, rvars>>

\* open(output_file, 'w') and json.dump: the file holds the message
WriteOutput(out, path, msg) ==
    [q \in (DOMAIN out) \cup {path} |-> IF q = path THEN msg ELSE out[q]]

\* languages.py 132-169: one language code: resolve, rewrite, write
LoopStep ==
    /\ pc = "loop"
    /\ idx <= Len(language_codes)
    /\ LET lang_code == language_codes[idx]
           lang_data == CacheAt(PathJoin(CacheDir, FileNameOf(lang_code)))
           msg == IF lang_data.st = "ok" /\ lang_data.has_key
                  THEN lang_data.msg
                  ELSE fallback_sleep_msg
           output_file == PathJoin(OutputDir, FileNameOf(lang_code))
       IN  IF lang_data.st = "partial"
           THEN /\ pc' = "aborted"
                /\ abort' = "bad_json"
                /\ UNCHANGED <<idx, output, writes>>
           ELSE /\ output' = WriteOutput(output, output_file, Rewrite(msg))
                /\ writes' = Append(writes, [path |-> output_file, msg |-> Rewrite(msg)])
                /\ idx' = idx + 1
                /\ UNCHANGED <<pc, abort>>
    /\ UNCHANGED <<skip_download, dlvars, cache, rows_read, accepted, language_codes, fallback_sleep_msg,
                   unmodified_files, rvars>>

\* languages.py 174-191, main.py 28: the post-pass reads every output file back
PostPass ==
    /\ pc = "loop"
    /\ idx > Len(language_codes)
    /\ unmodified_files' =
         LET msgOf(code) == output[PathJoin(OutputDir, FileNameOf(code))]
             listed == SelectSeq(language_codes, LAMBDA code : LooksUnmodified(msgOf(code)))
         IN  [k \in 1..Len(listed) |-> <<listed[k], msgOf(listed[k])>>]
    /\ pc' = "done"
    /\ UNCHANGED <<skip_download, abort, dlvars, cache, rows_read, accepted, language_codes,
                   fallback_sleep_msg, idx, output, writes, rvars>>

(***************************************************************************)
(* The run of main, and a direct call of download_all_files.               *)
(***************************************************************************)
IdleDownload ==
    /\ tasks = <<>>
    /\ requests = 0
    /\ pbar = 0
    /\ successful = 0

IdleProcess ==
    /\ rows_read = 0
    /\ accepted = <<>>
    /\ language_codes = <<>>
    /\ fallback_sleep_msg = <<>>
    /\ idx = 0
    /\ output = <<>>
    /\ writes = <<>>
    /\ unmodified_files = <<>>

IdleRewrite ==
    /\ r_pc = "off"
    /\ sleep_msg = <<>>
    /\ processed_msg = <<>>
    /\ r_prev = <<>>
    /\ r_flagged = FALSE

Init ==
    /\ pc = "main"
    /\ skip_download \in BOOLEAN
    /\ abort = ""
    /\ json_files = <<>>
    /\ dl = "idle"
    /\ IdleDownload
    /\ cache \in InitialCaches
    /\ IdleProcess
    /\ IdleRewrite

DownloadStep ==
    \/ DispatchAll
    \/ \E i \in 1..MaxFiles : TaskStart(i)
    \/ \E i \in 1..MaxFiles : TaskResponse(i)
    \/ \E i \in 1..MaxFiles : TaskWrite(i)
    \/ GatherReturn

Next ==
    \/ MainSkip
    \/ GetListing
    \/ DownloadStep
    \/ FilesReturn
    \/ ScrapeRow
    \/ ScrapeFail
    \/ ScrapeDone
    \/ LoadFallback
    \/ LoopStep
    \/ PostPass

Spec == Init /\ [][Next]_vars

\* download_all_files called on any list of descriptors, with an empty cache
InitFetch ==
    /\ pc = "direct"
    /\ skip_download = FALSE
    /\ abort = ""
    /\ json_files \in AnyLists
    /\ dl = "called"
    /\ IdleDownload
    /\ cache = [q \in CachePaths |-> Absent]
    /\ IdleProcess
    /\ IdleRewrite

SpecFetch == InitFetch /\ [][DownloadStep]_vars

InitRewrite ==
    /\ pc = "off"
    /\ skip_download = FALSE
    /\ abort = ""
    /\ json_files = <<>>
    /\ dl = "idle"
    /\ IdleDownload
    /\ cache = [q \in CachePaths |-> Absent]
    /\ IdleProcess
    /\ r_pc = "resolved"
    /\ sleep_msg \in SourceMsgs
    /\ processed_msg = <<>>
    /\ r_prev = <<>>
    /\ r_flagged = FALSE

\* languages.py 145-169: rewrite the message and write it to the output file
ProcessMessage ==
    /\ r_pc = "resolved"
    /\ processed_msg' = Rewrite(sleep_msg)
    /\ r_pc' = "written"
    /\ UNCHANGED <<sleep_msg, r_prev, r_flagged, mainvars, dlvars, cache, procvars>>

\* languages.py 176-184: the post-pass reads the message back and applies the heuristic
PostPassMessage ==
    /\ r_pc = "written"
    /\ r_flagged' = LooksUnmodified(processed_msg)
    /\ r_pc' = "checked"
    /\ UNCHANGED <<sleep_msg, processed_msg, r_prev, mainvars, dlvars, cache, procvars>>

\* languages.py 145-160 applied to a message that is already rewritten
ReapplyRewrite ==
    /\ r_pc = "checked"
    /\ r_prev' = processed_msg
    /\ processed_msg' = Rewrite(processed_msg)
    /\ r_pc' = "reapplied"
    /\ UNCHANGED <<sleep_msg, r_flagged, mainvars, dlvars, cache, procvars>>

NextRewrite == ProcessMessage \/ PostPassMessage \/ ReapplyRewrite

SpecRewrite == InitRewrite /\ [][NextRewrite]_vars

(***************************************************************************)
(* Statements about the rewrite, written without the operators above.      *)
(***************************************************************************)
HasBare(m) == \E i \in 1..(Len(m) - 1) : m[i] = "%" /\ m[i + 1] = "s"
HasNum(m) == \E i \in 1..(Len(m) - 1) : m[i] = "%" /\ m[i + 1] = "d"
HasIndexed(m) ==
    \E i \in 1..Len(m) : \E d \in 1..Len(m) :
        /\ i + d + 2 <= Len(m)
        /\ m[i] = "%"
        /\ \A j \in 1..d : m[i + j] \in Digits
        /\ m[i + d + 1] = "$"
        /\ m[i + d + 2] = "s"
HasPlaceholder(m) == HasBare(m) \/ HasNum(m) \/ HasIndexed(m)

IsPrefix(p, s) == Len(p) <= Len(s) /\ SubSeq(s, 1, Len(p)) = p
Drop(s, n) == SubSeq(s, n + 1, Len(s))

\* "every occurrence of old becomes new", by recursion on the text
RECURSIVE EveryBecomes(_, _, _)
EveryBecomes(s, old, new) ==
    IF s = <<>> THEN <<>>
    ELSE IF IsPrefix(old, s) THEN new \o EveryBecomes(Drop(s, Len(old)), old, new)
    ELSE <<Head(s)>> \o EveryBecomes(Tail(s), old, new)

\* "every %<digits>$s becomes new", by recursion on the text
RECURSIVE EveryIndexedBecomes(_, _)
EveryIndexedBecomes(s, new) ==
    IF s = <<>> THEN <<>>
    ELSE LET ds == { d \in 1..Len(s) :
                       /\ d + 3 <= Len(s)
                       /\ s[1] = "%"
                       /\ \A j \in 1..d : s[1 + j] \in Digits
                       /\ s[d + 2] = "$"
                       /\ s[d + 3] = "s" }
         IN  IF ds # {}
             THEN new \o EveryIndexedBecomes(Drop(s, (CHOOSE d \in ds : TRUE) + 3), new)
             ELSE <<Head(s)>> \o EveryIndexedBecomes(Tail(s), new)

FourPasses(m) ==
    EveryBecomes(
        EveryBecomes(
            EveryIndexedBecomes(
                EveryBecomes(m, <<"%", "s", "/", "%", "s">>, <<"?", "?", "?">>),
                <<"?", "?">>),
            <<"%", "s">>, <<"?", "?">>),
        <<"%", "d">>, <<"?", "?">>)

\* C1: the message written to the output file contains no '%s', no '%d' and no
\* '%<digits>$s', whatever the source message was.
C1_NoPlaceholderLeft ==
    r_pc \in {"written", "checked"} => ~HasPlaceholder(processed_msg)

C1_Witness ==
    r_pc = "written" /\ HasPlaceholder(sleep_msg) /\ processed_msg # sleep_msg

\* C4: the written message is the result of the four passes in the stated order
\* ('%s/%s' -> '???', '%<digits>$s' -> '??', '%s' -> '??', '%d' -> '??'); the
\* default message yields '??? players sleeping', the indexed message yields
\* '??/?? players are sleeping', and a message without a pattern is unchanged.
C4_FourPassOrder ==
    r_pc = "written" =>
        /\ processed_msg = FourPasses(sleep_msg)
        /\ (sleep_msg = DefaultMsg => processed_msg = DefaultMsgOut)
        /\ (sleep_msg = IndexedMsg => processed_msg = IndexedMsgOut)
        /\ (~HasPlaceholder(sleep_msg) => processed_msg = sleep_msg)

C4_Witness ==
    r_pc = "written" /\ sleep_msg = DefaultMsg /\ processed_msg = DefaultMsgOut

\* C5: applying the rewrite to an already rewritten message changes nothing.
C5_Idempotent ==
    r_pc = "reapplied" => processed_msg = r_prev

C5_Witness ==
    r_pc = "reapplied" /\ r_prev # sleep_msg /\ processed_msg = r_prev

CharsOf(m) == { m[i] : i \in 1..Len(m) }

\* C9 (as amended): the post-pass lists a message exactly when it contains a '%'
\* and contains an 's' or a 'd' anywhere, before or after the '%'.
C9_FlagsAnyOrder ==
    r_pc = "checked" =>
        (r_flagged <=> ("%" \in CharsOf(processed_msg)
                          /\ CharsOf(processed_msg) \cap {"s", "d"} # {}))

C9_Witness ==
    r_pc = "checked" /\ r_flagged /\ ~OrderedHeuristic(processed_msg)

\* C9 (as stated): the post-pass lists a message exactly when a '%' is followed,
\* at some later position, by an 's' or a 'd'.
C9_FlagsOnlyWhenFollowed ==
    r_pc = "checked" => (r_flagged <=> OrderedHeuristic(processed_msg))

(***************************************************************************)
(* Statements about the run.                                               *)
(***************************************************************************)
Settled == {"ok", "failed", "raised"}

\* C2: download_all_files never raises because of an item, and the count it
\* returns is the number of descriptors whose download, parse and write all
\* succeeded; for an empty list it returns 0 and no request is issued.
C2_CountsExactlySuccesses ==
    /\ dl # "raised"
    /\ dl = "returned" =>
         /\ successful = Cardinality({ i \in DOMAIN tasks : tasks[i].wrote })
         /\ (json_files = <<>> => successful = 0 /\ requests = 0)

C2_Witness ==
    /\ dl = "returned"
    /\ successful = 1
    /\ \E i \in DOMAIN tasks : tasks[i].pc = "raised" /\ ~json_files[i].has_name

\* an identifier of the documented shape: letters only, two at least, or two
\* such parts joined by one underscore
LettersOnly(c) == Len(c) >= 2 /\ \A i \in 1..Len(c) : c[i] \in Letters
WellFormedId(c) ==
    \/ LettersOnly(c)
    \/ \E u \in 1..Len(c) :
         /\ c[u] = "_"
         /\ LettersOnly(SubSeq(c, 1, u - 1))
         /\ LettersOnly(SubSeq(c, u + 1, Len(c)))

\* C3: every identifier get_language_codes returns is alphabetic with two
\* characters at least, or two such parts joined by one underscore, also when the
\* cell carried the [JEonly] marker.
C3_IdsWellFormed ==
    \A k \in 1..Len(language_codes) : WellFormedId(language_codes[k])

\* C6: while .cache/languages/en_gb.json is absent, process_sleep_messages writes
\* no output file and does not get past the fallback check, and the check itself
\* ends the run with the "fallback not found" error.
C6_NoFallbackNoOutput ==
    /\ [](CacheAt(CacheDir \o <<"/">> \o EnGbJson).st = "absent"
            => writes = <<>> /\ output = <<>> /\ pc \notin {"loop", "done"})
    /\ [][(pc = "fallback" /\ CacheAt(CacheDir \o <<"/">> \o EnGbJson).st = "absent")
            => (pc' = "aborted" /\ abort' = "no_fallback")]_vars

C6_Witness ==
    /\ pc = "aborted"
    /\ abort = "no_fallback"
    /\ ~skip_download
    /\ \E i \in DOMAIN tasks : json_files[i].name = EnGbJson /\ tasks[i].pc = "failed"
    /\ CacheAt(CacheDir \o <<"/">> \o AaJson).st = "ok"
    /\ language_codes # <<>>

\* C7: once download_all_files has returned, and all through the processing
\* phase, every dispatched download task has finished: none awaits a response
\* and none has a cache file open.
C7_JoinedBeforeReturn ==
    (dl = "returned" \/ pc \in {"scrape", "fallback", "loop", "done"}) =>
        \A i \in DOMAIN tasks : tasks[i].pc \in Settled

C7_Witness ==
    /\ pc = "scrape"
    /\ Len(tasks) >= 2
    /\ \E i \in DOMAIN tasks : tasks[i].pc = "ok"
    /\ \E i \in DOMAIN tasks : tasks[i].pc = "failed"

=============================================================================
